---- MODULE Spec2Model ----
(***************************************************************************)
(* Model of the debate-sim backend: the SSE relay of                       *)
(* backend/src/debate.py, the TTS dispatcher of backend/src/tts.py and the *)
(* FastAPI handlers of backend/main.py, all running on one asyncio event   *)
(* loop.                                                                   *)
(*                                                                         *)
(* Optional values (Python None) are sequences: <<>> is None and <<v>> is  *)
(* the value v.  Temperatures are counted in tenths (7 is 0.7).            *)
(***************************************************************************)
EXTENDS Integers, Sequences, FiniteSets, TLC

VARIABLES
    settings,     \* the memoized Settings object (config.py)
    sPc,          \* /api/debate/stream: position of the relay generator
    sReq,         \* the parsed DebateStreamRequest
    sArgs,        \* arguments debate_stream passes to stream_debate_response
    sCall,        \* arguments of client.chat.completions.create(stream=True)
    clients,      \* AsyncOpenAI clients constructed by the relay
    calls,        \* streaming network calls attempted by the relay
    upstream,     \* state of the upstream chunk sequence
    connOpen,     \* the upstream HTTP response of the streaming call is open
    received,     \* chunks the relay has taken from upstream, in order
    emitted,      \* SSE frames the relay has yielded, in order
    gPc,          \* /api/debate/generate: position of the handler
    gReq,         \* the parsed DebateResponseRequest
    gCall,        \* arguments of client.chat.completions.create(stream=False)
    gResponse,    \* the HTTP response of /api/debate/generate
    tPc,          \* /api/tts/generate: position of the handler
    tReq,         \* the parsed TTSRequest
    tProvider,    \* provider resolved by generate_tts
    tmp_path,     \* generate_tts_pyttsx3: name of its temporary file
    tExc,         \* generate_tts_pyttsx3: the exception raised, if any
    tAudio,       \* generate_tts_pyttsx3: bytes read back from the file
    files,        \* temporary files that exist on disk
    tResponse,    \* the HTTP response of the last /api/tts/generate request
    tCalls        \* /api/tts/generate requests served so far

debateVars == <<sPc, sReq, sArgs, sCall, clients, calls, upstream, connOpen,
                received, emitted, gPc, gReq, gCall, gResponse>>
ttsVars == <<tPc, tReq, tProvider, tmp_path, tExc, tAudio, files,
             tResponse, tCalls>>
vars == <<settings, debateVars, ttsVars>>

\* ------------------------------------------------------------------ bounds
MaxChunks == 2
MaxTtsCalls == 2

\* ------------------------------------------------------------ Python values
None == <<>>
Some(v) == <<v>>

\* `x or d` for an Optional[float]: None and 0.0 are falsy
OrFloat(x, d) == IF x # None /\ x[1] # 0 THEN x[1] ELSE d

\* `x or d` for an Optional[str]: None and "" are falsy
OrStr(x, d) == IF x # None /\ x[1] # "" THEN x[1] ELSE d

\* ---------------------------------------------------------------- settings
Settings ==
    [deepseek_api_key : {"", "sk-deepseek"},
     elevenlabs_api_key : {"", "el-key"},
     tts_provider : {"pyttsx3", "elevenlabs"}]

\* ------------------------------------------------------- request bodies
DefaultTemperature == 7

\* the temperature field of a JSON body: absent, null, or a number in [0.0, 2.0]
BodyTemperature ==
    {[kind |-> "absent", value |-> 0], [kind |-> "null", value |-> 0]}
        \cup {[kind |-> "number", value |-> v] : v \in {0, 10, 20}}

\* pydantic: temperature: Optional[float] = 0.7
ParseTemperature(field) ==
    CASE field.kind = "absent" -> Some(DefaultTemperature)
      [] field.kind = "null" -> None
      [] OTHER -> Some(field.value)

\* the expression `request.temperature or 0.7` of both debate handlers
PassedTemperature(t) == OrFloat(t, DefaultTemperature)

\* ---------------------------------------------------------- upstream chunks
Fragments == {"A", "B"}

\* a ChatCompletionChunk: no choices, or one choice whose delta.content is
\* None, "" or a fragment of text
Chunks ==
    {[choices |-> <<>>]}
        \cup {[choices |-> <<[delta |-> [content |-> c]]>>] :
                c \in {None, Some("")} \cup {Some(f) : f \in Fragments}}

UpstreamErrors == {"upstream failure"}

\* ------------------------------------------------------------- SSE frames
\* f"data: {json.dumps(data)}\n\n"; data is kept as the JSON object
Sse(data) == [prefix |-> "data: ", data |-> data, suffix |-> "\n\n"]

\* mutant: the test of delta.content only rejects None, not the empty string
IsForwarded_EmptyContentToo(chunk) ==
    /\ chunk.choices # <<>>
    /\ chunk.choices[1].delta.content # None

\* the condition `chunk.choices and chunk.choices[0].delta.content`
IsForwarded(chunk) ==
    /\ chunk.choices # <<>>
    /\ chunk.choices[1].delta.content # None
    /\ chunk.choices[1].delta.content[1] # ""

ContentEvent(chunk) ==
    [content |-> chunk.choices[1].delta.content[1], done |-> FALSE]

DoneEvent == [done |-> TRUE]

KeyMissingEvent == [error |-> "DeepSeek API key not configured"]

ErrorEvent(e) == [error |-> e, done |-> TRUE]

\* ------------------------------------------------------------- event loop
\* generate_tts_pyttsx3 is called without await from the coroutine
\* generate_tts: from its first line to its return it occupies the loop thread
LocalSteps == {"init", "setprop", "mktemp", "save", "run", "read", "cleanup"}

LoopFree == tPc \notin LocalSteps

\* -------------------------------------------------------------------- Init
Init ==
    /\ settings \in Settings
    /\ sPc = "idle" /\ sReq = None /\ sArgs = None /\ sCall = None
    /\ clients = 0 /\ calls = 0
    /\ upstream = "none" /\ connOpen = FALSE
    /\ received = <<>> /\ emitted = <<>>
    /\ gPc = "idle" /\ gReq = None /\ gCall = None /\ gResponse = None
    /\ tPc = "idle" /\ tReq = None /\ tProvider = None
    /\ tmp_path = None /\ tExc = None /\ tAudio = None
    /\ files = {} /\ tResponse = None /\ tCalls = 0

\* ---------------------------------------------------- /api/debate/stream
relayVars == <<sPc, sReq, sArgs, sCall, clients, calls, upstream, connOpen,
               received, emitted>>
generateVars == <<gPc, gReq, gCall, gResponse>>

\* debate_stream: builds the generator and returns the StreamingResponse
debate_stream(field) ==
    /\ LoopFree
    /\ sPc = "idle"
    /\ sReq' = Some([temperature |-> ParseTemperature(field)])
    /\ sArgs' = Some([temperature |->
                        PassedTemperature(ParseTemperature(field))])
    /\ sPc' = "accepted"
    /\ UNCHANGED <<sCall, clients, calls, upstream, connOpen, received,
                   emitted>>
    /\ UNCHANGED <<settings, generateVars, ttsVars>>

\* mutant: the done marker is yielded after the error event as well
OnUpstreamException_ThenDone(e) ==
    /\ emitted' = emitted \o <<Sse(ErrorEvent(e)), Sse(DoneEvent)>>
    /\ sPc' = "done"

\* mutant: no except clause, the exception leaves the generator
OnUpstreamException_Propagates(e) ==
    /\ emitted' = emitted
    /\ sPc' = "raised"

\* the `except Exception as e` clause of stream_debate_response
OnUpstreamException(e) ==
    /\ emitted' = Append(emitted, Sse(ErrorEvent(e)))
    /\ sPc' = "done"

\* stream_debate_response up to its first suspension: the credential check,
\* then the client and the `await client.chat.completions.create(...)`
RelayStart ==
    /\ LoopFree
    /\ sPc = "accepted"
    /\ IF settings.deepseek_api_key = ""
       THEN /\ emitted' = Append(emitted, Sse(KeyMissingEvent))
            /\ sPc' = "done"
            /\ UNCHANGED <<sCall, clients, calls>>
       ELSE /\ clients' = clients + 1
            /\ calls' = calls + 1
            /\ sCall' = Some([temperature |-> sArgs[1].temperature,
                              stream |-> TRUE])
            /\ sPc' = "opening"
            /\ UNCHANGED emitted
    /\ UNCHANGED <<sReq, sArgs, upstream, connOpen, received>>
    /\ UNCHANGED <<settings, generateVars, ttsVars>>

\* the awaited create() returns the stream; the relay enters `async for`
UpstreamOpens ==
    /\ LoopFree
    /\ sPc = "opening"
    /\ upstream' = "open"
    /\ connOpen' = TRUE
    /\ sPc' = "streaming"
    /\ UNCHANGED <<sReq, sArgs, sCall, clients, calls, received, emitted>>
    /\ UNCHANGED <<settings, generateVars, ttsVars>>

\* the awaited create() raises
UpstreamRefuses ==
    /\ LoopFree
    /\ sPc = "opening"
    /\ upstream' = "refused"
    /\ \E e \in UpstreamErrors : OnUpstreamException(e)
    /\ UNCHANGED <<sReq, sArgs, sCall, clients, calls, connOpen, received>>
    /\ UNCHANGED <<settings, generateVars, ttsVars>>

\* one iteration of `async for chunk in stream`
RelayChunk(chunk) ==
    /\ LoopFree
    /\ sPc = "streaming"
    /\ Len(received) < MaxChunks
    /\ received' = Append(received, chunk)
    /\ IF IsForwarded(chunk)
       THEN /\ emitted' = Append(emitted, Sse(ContentEvent(chunk)))
            /\ sPc' = "yielded"
       ELSE UNCHANGED <<emitted, sPc>>
    /\ UNCHANGED <<sReq, sArgs, sCall, clients, calls, upstream, connOpen>>
    /\ UNCHANGED <<settings, generateVars, ttsVars>>

\* the consumer asks for the next frame: the generator resumes after `yield`
RelayResume ==
    /\ LoopFree
    /\ sPc = "yielded"
    /\ sPc' = "streaming"
    /\ UNCHANGED <<sReq, sArgs, sCall, clients, calls, upstream, connOpen,
                   received, emitted>>
    /\ UNCHANGED <<settings, generateVars, ttsVars>>

\* the upstream sequence ends: the loop exits and the done marker is yielded
RelayExhausted ==
    /\ LoopFree
    /\ sPc = "streaming"
    /\ upstream' = "exhausted"
    /\ connOpen' = FALSE
    /\ emitted' = Append(emitted, Sse(DoneEvent))
    /\ sPc' = "done"
    /\ UNCHANGED <<sReq, sArgs, sCall, clients, calls, received>>
    /\ UNCHANGED <<settings, generateVars, ttsVars>>

\* the upstream sequence raises inside `async for`
RelayUpstreamRaises ==
    /\ LoopFree
    /\ sPc = "streaming"
    /\ upstream' = "raised"
    /\ connOpen' = FALSE
    /\ \E e \in UpstreamErrors : OnUpstreamException(e)
    /\ UNCHANGED <<sReq, sArgs, sCall, clients, calls, received>>
    /\ UNCHANGED <<settings, generateVars, ttsVars>>

\* the caller disconnects: CancelledError or GeneratorExit (BaseException, not
\* Exception) leaves the generator through `except Exception` uncaught; the
\* relay holds no `finally`, `async with` or close() for the stream.  While
\* awaiting the next chunk the exception unwinds through the client library,
\* which may or may not close the response; suspended at `yield` nothing runs.
DownstreamCloses ==
    /\ LoopFree
    /\ sPc \in {"opening", "streaming", "yielded"}
    /\ sPc' = "closed"
    /\ IF sPc = "streaming"
       THEN connOpen' \in {connOpen, FALSE}
       ELSE UNCHANGED connOpen
    /\ UNCHANGED <<sReq, sArgs, sCall, clients, calls, upstream, received,
                   emitted>>
    /\ UNCHANGED <<settings, generateVars, ttsVars>>

RelayStep ==
    \/ \E chunk \in Chunks : RelayChunk(chunk)
    \/ RelayExhausted
    \/ RelayUpstreamRaises

\* -------------------------------------------------- /api/debate/generate
Completions == {"Hello there"}

\* debate_generate down to the await inside generate_debate_response
debate_generate(field) ==
    /\ LoopFree
    /\ gPc = "idle"
    /\ gReq' = Some([temperature |-> ParseTemperature(field)])
    /\ IF settings.deepseek_api_key = ""
       THEN /\ gResponse' = Some([status |-> 500, content |-> None])
            /\ gPc' = "done"
            /\ UNCHANGED gCall
       ELSE /\ gCall' = Some([temperature |->
                                PassedTemperature(ParseTemperature(field)),
                              stream |-> FALSE])
            /\ gPc' = "awaiting"
            /\ UNCHANGED gResponse
    /\ UNCHANGED <<settings, relayVars, ttsVars>>

\* the awaited create() returns: {"content": response}
GenerateReturns ==
    /\ LoopFree
    /\ gPc = "awaiting"
    /\ \E text \in Completions :
          gResponse' = Some([status |-> 200, content |-> Some(text)])
    /\ gPc' = "done"
    /\ UNCHANGED <<gReq, gCall>>
    /\ UNCHANGED <<settings, relayVars, ttsVars>>

\* the awaited create() raises: HTTPException(status_code=500)
GenerateRaises ==
    /\ LoopFree
    /\ gPc = "awaiting"
    /\ gResponse' = Some([status |-> 500, content |-> None])
    /\ gPc' = "done"
    /\ UNCHANGED <<gReq, gCall>>
    /\ UNCHANGED <<settings, relayVars, ttsVars>>

NextStream ==
    \/ \E field \in BodyTemperature : debate_stream(field)
    \/ RelayStart
    \/ UpstreamOpens
    \/ UpstreamRefuses
    \/ \E chunk \in Chunks : RelayChunk(chunk)
    \/ RelayResume
    \/ RelayExhausted
    \/ RelayUpstreamRaises
    \/ DownstreamCloses

NextGenerate ==
    \/ \E field \in BodyTemperature : debate_generate(field)
    \/ GenerateReturns
    \/ GenerateRaises

\* the two debate endpoints
NextDebate == NextStream \/ NextGenerate

SpecDebate == Init /\ [][NextDebate]_vars

\* ------------------------------------------------------- /api/tts/generate
\* the provider field of a TTSRequest: None, "" or a provider name
BodyProvider == {None, Some(""), Some("pyttsx3"), Some("elevenlabs")}

sample_rate == 16000
num_channels == 1
sample_width == 2
FallbackSeconds == 2

\* bytes of one '<h' sample written by struct.pack
ShortBytes == 2

\* generate_silent_wav: num_frames zero samples packed as little-endian
\* shorts, written through wave.open(...).writeframes; the header's frame
\* count is the data length over the frame size.  The zero bytes are kept as
\* a run (value, length).
generate_silent_wav(duration_seconds) ==
    LET num_frames == sample_rate * duration_seconds
        audio_data == [byte |-> 0, length |-> ShortBytes * num_frames]
    IN  [format |-> "wav",
         nchannels |-> num_channels,
         sampwidth |-> sample_width,
         framerate |-> sample_rate,
         nframes |-> audio_data.length \div (sample_width * num_channels),
         data |-> audio_data]

\* what the pyttsx3 engine writes to the file, and what ElevenLabs returns
EngineAudio == [format |-> "wav", origin |-> "pyttsx3"]
RemoteAudio == [format |-> "mp3", origin |-> "elevenlabs"]

\* generate_tts: `provider = provider or settings.tts_provider`
ResolveProvider(provider) == OrStr(provider, settings.tts_provider)

\* tts_generate: the content type and the file name of the Response, both
\* decided by `request.provider == "elevenlabs"`
ResponseLabel(request) ==
    IF request.provider = Some("elevenlabs")
    THEN [media_type |-> "audio/mpeg", filename |-> "audio.mp3"]
    ELSE [media_type |-> "audio/wav", filename |-> "audio.wav"]

\* tts_generate after generate_tts returned: Response(content=audio_bytes, ...)
Respond(audio) ==
    /\ tResponse' = Some([status |-> 200,
                          media_type |-> ResponseLabel(tReq[1]).media_type,
                          filename |-> ResponseLabel(tReq[1]).filename,
                          body |-> Some(audio)])
    /\ tPc' = "idle"

\* tts_generate's `except Exception`: HTTPException(status_code=500)
RespondError ==
    /\ tResponse' = Some([status |-> 500, media_type |-> "application/json",
                          filename |-> "", body |-> None])
    /\ tPc' = "idle"

\* mutant: the except clause re-raises instead of substituting silence
LocalFallback_Raises(e) ==
    /\ tExc' = Some(e)
    /\ RespondError

\* generate_tts_pyttsx3's outer `except Exception as e`: the silent fallback
LocalFallback(e) ==
    /\ tExc' = Some(e)
    /\ Respond(generate_silent_wav(FallbackSeconds))

\* tts_generate -> generate_tts, down to the first await (remote provider) or
\* into the synchronous generate_tts_pyttsx3 (any other provider)
tts_generate(provider) ==
    /\ LoopFree
    /\ tPc = "idle"
    /\ tCalls < MaxTtsCalls
    /\ tCalls' = tCalls + 1
    /\ tReq' = Some([provider |-> provider])
    /\ tProvider' = Some(ResolveProvider(provider))
    /\ tmp_path' = None /\ tExc' = None /\ tAudio' = None
    /\ IF ResolveProvider(provider) = "elevenlabs"
       THEN IF settings.elevenlabs_api_key = ""
            THEN RespondError
            ELSE tPc' = "posting" /\ tResponse' = None
       ELSE tPc' = "init" /\ tResponse' = None
    /\ UNCHANGED files
    /\ UNCHANGED <<settings, debateVars>>

\* generate_tts_elevenlabs: the awaited POST returns 2xx
RemoteReturns ==
    /\ LoopFree
    /\ tPc = "posting"
    /\ Respond(RemoteAudio)
    /\ UNCHANGED <<tReq, tProvider, tmp_path, tExc, tAudio, files, tCalls>>
    /\ UNCHANGED <<settings, debateVars>>

\* generate_tts_elevenlabs: the POST or raise_for_status() raises
RemoteRaises ==
    /\ LoopFree
    /\ tPc = "posting"
    /\ RespondError
    /\ UNCHANGED <<tReq, tProvider, tmp_path, tExc, tAudio, files, tCalls>>
    /\ UNCHANGED <<settings, debateVars>>

\* `import pyttsx3; engine = pyttsx3.init()`
LocalInit(ok) ==
    /\ tPc = "init"
    /\ IF ok
       THEN tPc' = "setprop" /\ UNCHANGED <<tExc, tResponse>>
       ELSE LocalFallback("init")
    /\ UNCHANGED <<tReq, tProvider, tmp_path, tAudio, files, tCalls>>
    /\ UNCHANGED <<settings, debateVars>>

\* the two engine.setProperty calls
LocalSetProperty(ok) ==
    /\ tPc = "setprop"
    /\ IF ok
       THEN tPc' = "mktemp" /\ UNCHANGED <<tExc, tResponse>>
       ELSE LocalFallback("setprop")
    /\ UNCHANGED <<tReq, tProvider, tmp_path, tAudio, files, tCalls>>
    /\ UNCHANGED <<settings, debateVars>>

\* `with tempfile.NamedTemporaryFile(delete=False, suffix='.wav')`: a fresh
\* file is created (named here by the number of the call) and closed
LocalMkTemp(ok) ==
    /\ tPc = "mktemp"
    /\ IF ok
       THEN /\ tmp_path' = Some(tCalls)
            /\ files' = files \cup {tCalls}
            /\ tPc' = "save"
            /\ UNCHANGED <<tExc, tResponse>>
       ELSE /\ LocalFallback("mktemp")
            /\ UNCHANGED <<tmp_path, files>>
    /\ UNCHANGED <<tReq, tProvider, tAudio, tCalls>>
    /\ UNCHANGED <<settings, debateVars>>

\* mutant: no try/finally around the synthesis, the exception goes straight
\* to the outer except
EnterFinally_Skipped(e) == LocalFallback(e)

\* a statement of the inner try raises: control goes to `finally` with the
\* exception pending
EnterFinally(e) ==
    /\ tExc' = Some(e)
    /\ tPc' = "cleanup"
    /\ UNCHANGED tResponse

\* engine.save_to_file(text, tmp_path)
LocalSave(ok) ==
    /\ tPc = "save"
    /\ IF ok
       THEN tPc' = "run" /\ UNCHANGED <<tExc, tResponse>>
       ELSE EnterFinally("save")
    /\ UNCHANGED <<tReq, tProvider, tmp_path, tAudio, files, tCalls>>
    /\ UNCHANGED <<settings, debateVars>>

\* engine.runAndWait()
LocalRun(ok) ==
    /\ tPc = "run"
    /\ IF ok
       THEN tPc' = "read" /\ UNCHANGED <<tExc, tResponse>>
       ELSE EnterFinally("run")
    /\ UNCHANGED <<tReq, tProvider, tmp_path, tAudio, files, tCalls>>
    /\ UNCHANGED <<settings, debateVars>>

\* `with open(tmp_path, 'rb') as f: audio_bytes = f.read()`, then the
\* `return audio_bytes` that runs `finally` first
LocalRead(ok) ==
    /\ tPc = "read"
    /\ IF ok
       THEN /\ tAudio' = Some(EngineAudio)
            /\ tPc' = "cleanup"
            /\ UNCHANGED <<tExc, tResponse>>
       ELSE EnterFinally("read") /\ UNCHANGED tAudio
    /\ UNCHANGED <<tReq, tProvider, tmp_path, files, tCalls>>
    /\ UNCHANGED <<settings, debateVars>>

\* the `finally` clause: `if os.path.exists(tmp_path): os.unlink(tmp_path)`;
\* an unlink that raises replaces the pending return or exception and reaches
\* the outer except; otherwise the pending exception reaches it, or the bytes
\* are returned
LocalCleanup(ok) ==
    /\ tPc = "cleanup"
    /\ IF tmp_path[1] \in files /\ ~ok
       THEN /\ LocalFallback("cleanup")
            /\ UNCHANGED files
       ELSE /\ files' = files \ {tmp_path[1]}
            /\ IF tExc # None
               THEN LocalFallback(tExc[1])
               ELSE Respond(tAudio[1]) /\ UNCHANGED tExc
    /\ UNCHANGED <<tReq, tProvider, tmp_path, tAudio, tCalls>>
    /\ UNCHANGED <<settings, debateVars>>

NextTts ==
    \/ \E provider \in BodyProvider : tts_generate(provider)
    \/ RemoteReturns
    \/ RemoteRaises
    \/ \E ok \in BOOLEAN : LocalInit(ok)
    \/ \E ok \in BOOLEAN : LocalSetProperty(ok)
    \/ \E ok \in BOOLEAN : LocalMkTemp(ok)
    \/ \E ok \in BOOLEAN : LocalSave(ok)
    \/ \E ok \in BOOLEAN : LocalRun(ok)
    \/ \E ok \in BOOLEAN : LocalRead(ok)
    \/ \E ok \in BOOLEAN : LocalCleanup(ok)

SpecTts == Init /\ [][NextTts]_vars

\* --------------------------------------------------------- the event loop
\* a streaming debate request and TTS requests in flight on the one loop
NextLoop == NextStream \/ NextTts

SpecLoop == Init /\ [][NextLoop]_vars

\* ------------------------------------------------------- the whole server
Next == NextDebate \/ NextTts

Spec == Init /\ [][Next]_vars
\* ------------------------------------------------------------------ claims
IsContentEvent(d) == DOMAIN d = {"content", "done"} /\ d.done = FALSE
IsSuccessMarker(d) == DOMAIN d = {"done"} /\ d.done = TRUE
IsErrorEvent(d) == "error" \in DOMAIN d
IsTerminalEvent(d) == IsSuccessMarker(d) \/ IsErrorEvent(d)

\* the texts of the content events, in emission order
EmittedContents ==
    LET content == SelectSeq(emitted, LAMBDA f : IsContentEvent(f.data))
    IN  [i \in 1..Len(content) |-> content[i].data.content]

\* the non-empty fragments of a chunk sequence, in arrival order
NonEmptyFragments(chunks) ==
    LET kept == SelectSeq(chunks, LAMBDA c :
                    /\ Len(c.choices) > 0
                    /\ c.choices[1].delta.content \notin {None, Some("")})
    IN  [i \in 1..Len(kept) |-> kept[i].choices[1].delta.content[1]]

C2_ContentsAreNonEmptyFragments ==
    EmittedContents = NonEmptyFragments(received)

C2_Witness ==
    /\ Len(received) >= 2
    /\ Len(EmittedContents) >= 1
    /\ Len(EmittedContents) < Len(received)

\* C3: with the DeepSeek key absent the relay emits exactly one event, of
\* shape {"error": <message>, "done": true}, and constructs no client and
\* attempts no network call.
C3_KeyAbsentErrorTerminal ==
    (settings.deepseek_api_key = "" /\ sPc = "done") =>
        /\ Len(emitted) = 1
        /\ DOMAIN emitted[1].data = {"error", "done"}
        /\ emitted[1].data.done = TRUE
        /\ clients = 0
        /\ calls = 0

\* C4: when the upstream call raises (at opening, or after k fragments were
\* forwarded) the k content events stay in the output, followed by exactly
\* one {error, done: true} event and no success marker, and the relay has
\* returned normally; the success marker appears only after the upstream
\* sequence was exhausted without raising.
C4_UpstreamExceptionBecomesErrorEvent ==
    /\ upstream \in {"refused", "raised"} =>
          /\ sPc = "done"
          /\ Len(emitted) = Len(NonEmptyFragments(received)) + 1
          /\ \A i \in 1..(Len(emitted) - 1) :
                /\ IsContentEvent(emitted[i].data)
                /\ emitted[i].data.content = NonEmptyFragments(received)[i]
          /\ \E e \in UpstreamErrors :
                emitted[Len(emitted)].data = [error |-> e, done |-> TRUE]
    /\ (\E i \in 1..Len(emitted) : IsSuccessMarker(emitted[i].data)) =>
          upstream = "exhausted"

C4_Witness ==
    /\ upstream = "raised"
    /\ Len(received) >= 2
    /\ Len(emitted) >= 2

\* C5: a request served by the local provider never gets an error: its
\* response is 200 with WAV bytes, and if any step of the local synthesis
\* raised, the bytes are the silent WAV: mono, 16-bit, 16000 Hz, 32000 zero
\* frames (2 seconds).
C5_LocalProviderAlwaysReturnsAudio ==
    (tPc = "idle" /\ tCalls > 0 /\ tProvider # Some("elevenlabs")) =>
        /\ tResponse # None
        /\ tResponse[1].status = 200
        /\ tResponse[1].body # None
        /\ tResponse[1].body[1].format = "wav"
        /\ IF tExc # None
           THEN tResponse[1].body[1] =
                    [format |-> "wav", nchannels |-> 1, sampwidth |-> 2,
                     framerate |-> 16000, nframes |-> 32000,
                     data |-> [byte |-> 0, length |-> 64000]]
           ELSE tResponse[1].body[1] = EngineAudio

C5_Witness ==
    /\ tPc = "idle"
    /\ tProvider = Some("pyttsx3")
    /\ tExc = Some("run")
    /\ tResponse # None

C7_LabelMatchesResolvedProvider ==
    (tPc = "idle" /\ tResponse # None /\ tResponse[1].status = 200) =>
        /\ tResponse[1].media_type =
              (IF tProvider = Some("elevenlabs")
               THEN "audio/mpeg" ELSE "audio/wav")
        /\ tResponse[1].filename =
              (IF tProvider = Some("elevenlabs")
               THEN "audio.mp3" ELSE "audio.wav")
        /\ tResponse[1].body[1].format =
              (IF tResponse[1].media_type = "audio/mpeg"
               THEN "mp3" ELSE "wav")

\* C8: once the relay has stopped because the downstream channel closed, the
\* upstream connection it opened is closed.
C8_UpstreamClosedWhenDownstreamCloses ==
    sPc = "closed" => ~connOpen

\* C9: while a TTS request is inside local synthesis, a relay waiting for
\* its next fragment can still take a step.
C9_LocalSynthesisDoesNotStallRelay ==
    (tPc \in LocalSteps /\ sPc = "streaming") => ENABLED RelayStep

\* C10: on both debate endpoints the temperature passed upstream is the
\* request's temperature whenever the request carries one (any value of
\* [0.0, 2.0]); 0.7 is passed only for a request without a temperature.
C10_TemperaturePassedThrough ==
    /\ sCall # None =>
          sCall[1].temperature =
             (IF sReq[1].temperature # None
              THEN sReq[1].temperature[1] ELSE 7)
    /\ gCall # None =>
          gCall[1].temperature =
             (IF gReq[1].temperature # None
              THEN gReq[1].temperature[1] ELSE 7)
====
